---- MODULE Spec2Model ----
(***************************************************************************)
(* A model of healthcare-notification-system.py: the Notification objects, *)
(* the NotificationCenter that stores them and the HealthcareProviderSystem*)
(* that gates access to them behind login.                                 *)
(*                                                                         *)
(* Python objects live on a heap and are handed around by reference: the   *)
(* list _notifications holds references, and the methods return references.*)
(***************************************************************************)
EXTENDS Integers, Sequences, FiniteSets

\* Bounds of the model.
MaxNotifs == 3
ViewCap == 2

\* The inputs the callers draw from.
\* <<title, content>>: add_notification takes any text, the empty string included.
Texts == {<<"", "">>, <<"Patient Follow-up", "Patient John Doe requires a follow-up.">>}
Times == {"2026-01-01T09:00"}
Usernames == {"", "x", "dr.smith"}
Passwords == {"", "x", "y"}
Ids == 0..(MaxNotifs + 1)

VARIABLES
    heap,            \* the Notification objects, by address
    _notifications,  \* NotificationCenter._notifications: a list of references
    _next_id,        \* NotificationCenter._next_id
    current_user,    \* HealthcareProviderSystem.current_user
    call,            \* the last method called, with its arguments
    ret,             \* what that call returned
    returned_ids,    \* history: the identifiers add_notification returned, in call order
    ever_logged_in,  \* history: some login has returned True
    marked,          \* history: the references view_notification has marked read
    view_count,      \* history: per id, the logged-in views that found it (capped)
    created_logged_out  \* history: the references created while no user was set

vars == <<heap, _notifications, _next_id, current_user, call, ret,
          returned_ids, ever_logged_in, marked, view_count, created_logged_out>>

store == <<heap, _notifications, _next_id>>
history == <<returned_ids, ever_logged_in, marked, view_count, created_logged_out>>

\* Python values.
None == [type |-> "NoneType"]
Str(s) == [type |-> "str", value |-> s]
Ref(a) == [type |-> "Notification", addr |-> a]

\* bool(v): None and the empty string are false, every object is true.
Truthy(v) ==
    IF v.type = "NoneType" THEN FALSE
    ELSE IF v.type = "str" THEN v.value /= ""
    ELSE TRUE

\* Notification.__init__
Notification(notification_id, title, content, timestamp) ==
    [notification_id |-> notification_id,
     title |-> title,
     content |-> content,
     timestamp |-> timestamp,
     is_read |-> FALSE]

Call(op, args) == [op |-> op, args |-> args]

\* NotificationCenter.__init__ and HealthcareProviderSystem.__init__
Init ==
    /\ heap = <<>>
    /\ _notifications = <<>>
    /\ _next_id = 1
    /\ current_user = None
    /\ call = Call("__init__", <<>>)
    /\ ret = None
    /\ returned_ids = <<>>
    /\ ever_logged_in = FALSE
    /\ marked = {}
    /\ view_count = [i \in Ids |-> 0]
    /\ created_logged_out = {}

\* add_notification without its "self._next_id += 1".
add_notification_no_increment(title, content, now) ==
    /\ Len(_notifications) < MaxNotifs
    /\ LET new_notification == Ref(Len(heap) + 1) IN
        /\ heap' = Append(heap, Notification(_next_id, title, content, now))
        /\ _notifications' = Append(_notifications, new_notification)
        /\ _next_id' = _next_id
        /\ ret' = new_notification
        /\ returned_ids' = Append(returned_ids, _next_id)
        /\ created_logged_out' = IF Truthy(current_user) THEN created_logged_out
                                 ELSE created_logged_out \cup {new_notification}
    /\ call' = Call("add_notification", <<title, content>>)
    /\ UNCHANGED <<current_user, ever_logged_in, marked, view_count>>

\* add_notification with "self._notifications.insert(0, new_notification)".
add_notification_prepend(title, content, now) ==
    /\ Len(_notifications) < MaxNotifs
    /\ LET new_notification == Ref(Len(heap) + 1) IN
        /\ heap' = Append(heap, Notification(_next_id, title, content, now))
        /\ _notifications' = <<new_notification>> \o _notifications
        /\ _next_id' = _next_id + 1
        /\ ret' = new_notification
        /\ returned_ids' = Append(returned_ids, _next_id)
        /\ created_logged_out' = IF Truthy(current_user) THEN created_logged_out
                                 ELSE created_logged_out \cup {new_notification}
    /\ call' = Call("add_notification", <<title, content>>)
    /\ UNCHANGED <<current_user, ever_logged_in, marked, view_count>>

\* add_notification refusing, with None, to create while no user is logged in.
add_notification_gated(title, content, now) ==
    /\ Len(_notifications) < MaxNotifs
    /\ call' = Call("add_notification", <<title, content>>)
    /\ IF ~Truthy(current_user)
       THEN /\ ret' = None
            /\ UNCHANGED <<store, returned_ids>>
       ELSE LET new_notification == Ref(Len(heap) + 1) IN
            /\ heap' = Append(heap, Notification(_next_id, title, content, now))
            /\ _notifications' = Append(_notifications, new_notification)
            /\ _next_id' = _next_id + 1
            /\ ret' = new_notification
            /\ returned_ids' = Append(returned_ids, _next_id)
    /\ UNCHANGED <<current_user, ever_logged_in, marked, view_count, created_logged_out>>

\* NotificationCenter.add_notification
add_notification(title, content, now) ==
    /\ Len(_notifications) < MaxNotifs
    /\ LET new_notification == Ref(Len(heap) + 1) IN
        /\ heap' = Append(heap, Notification(_next_id, title, content, now))
        /\ _notifications' = Append(_notifications, new_notification)
        /\ _next_id' = _next_id + 1
        /\ ret' = new_notification
        /\ returned_ids' = Append(returned_ids, _next_id)
        /\ created_logged_out' = IF Truthy(current_user) THEN created_logged_out
                                 ELSE created_logged_out \cup {new_notification}
    /\ call' = Call("add_notification", <<title, content>>)
    /\ UNCHANGED <<current_user, ever_logged_in, marked, view_count>>

\* The list comprehension of get_unread_notifications, element by element.
RECURSIVE unread_of(_)
unread_of(list) ==
    IF list = <<>> THEN <<>>
    ELSE LET notification == Head(list) IN
         (IF ~heap[notification.addr].is_read THEN <<notification>> ELSE <<>>)
             \o unread_of(Tail(list))

\* get_unread_notifications without the "if not notification.is_read" filter.
get_unread_unfiltered == _notifications

\* NotificationCenter.get_unread_notifications: the value returned.
get_unread_notifications == unread_of(_notifications)

\* The for loop ending in "return notification": without a match, the loop
\* variable (the last element) is returned.
RECURSIVE scan_for_leaky(_, _)
scan_for_leaky(list, notification_id) ==
    IF list = <<>> THEN None
    ELSE LET notification == Head(list) IN
         IF heap[notification.addr].notification_id = notification_id
             \/ Tail(list) = <<>>
         THEN notification
         ELSE scan_for_leaky(Tail(list), notification_id)

\* The for loop of get_notification_by_id, element by element.
RECURSIVE scan_for(_, _)
scan_for(list, notification_id) ==
    IF list = <<>> THEN None
    ELSE LET notification == Head(list) IN
         IF heap[notification.addr].notification_id = notification_id
         THEN notification
         ELSE scan_for(Tail(list), notification_id)

\* get_notification_by_id taking the id for a list index: _notifications[id].
get_notification_by_index(notification_id) ==
    IF notification_id + 1 \in DOMAIN _notifications
    THEN _notifications[notification_id + 1]
    ELSE None

\* NotificationCenter.get_notification_by_id: the value returned.
get_notification_by_id(notification_id) == scan_for(_notifications, notification_id)

\* A caller uses notification_center.get_unread_notifications() directly.
call_get_unread_notifications ==
    /\ call' = Call("get_unread_notifications", <<>>)
    /\ ret' = get_unread_notifications
    /\ UNCHANGED <<store, current_user, history>>

\* A caller uses notification_center.get_notification_by_id(id) directly.
call_get_notification_by_id(notification_id) ==
    /\ call' = Call("get_notification_by_id", <<notification_id>>)
    /\ ret' = get_notification_by_id(notification_id)
    /\ UNCHANGED <<store, current_user, history>>

\* login with "if username or password".
login_either(username, password) ==
    /\ call' = Call("login", <<username, password>>)
    /\ IF Truthy(Str(username)) \/ Truthy(Str(password))
       THEN /\ current_user' = Str(username)
            /\ ret' = TRUE
            /\ ever_logged_in' = TRUE
       ELSE /\ ret' = FALSE
            /\ UNCHANGED <<current_user, ever_logged_in>>
    /\ UNCHANGED <<store, returned_ids, marked, view_count, created_logged_out>>

\* login assigning "self.current_user = username" before it tests the credentials.
login_assign_first(username, password) ==
    /\ call' = Call("login", <<username, password>>)
    /\ current_user' = Str(username)
    /\ IF Truthy(Str(username)) /\ Truthy(Str(password))
       THEN /\ ret' = TRUE
            /\ ever_logged_in' = TRUE
       ELSE /\ ret' = FALSE
            /\ UNCHANGED ever_logged_in
    /\ UNCHANGED <<store, returned_ids, marked, view_count, created_logged_out>>

\* login keeping the user already logged in: "if not self.current_user:
\* self.current_user = username".
login_keep_first(username, password) ==
    /\ call' = Call("login", <<username, password>>)
    /\ IF Truthy(Str(username)) /\ Truthy(Str(password))
       THEN /\ current_user' = IF Truthy(current_user) THEN current_user ELSE Str(username)
            /\ ret' = TRUE
            /\ ever_logged_in' = TRUE
       ELSE /\ ret' = FALSE
            /\ UNCHANGED <<current_user, ever_logged_in>>
    /\ UNCHANGED <<store, returned_ids, marked, view_count, created_logged_out>>

\* HealthcareProviderSystem.login
login(username, password) ==
    /\ call' = Call("login", <<username, password>>)
    /\ IF Truthy(Str(username)) /\ Truthy(Str(password))
       THEN /\ current_user' = Str(username)
            /\ ret' = TRUE
            /\ ever_logged_in' = TRUE
       ELSE /\ ret' = FALSE
            /\ UNCHANGED <<current_user, ever_logged_in>>
    /\ UNCHANGED <<store, returned_ids, marked, view_count, created_logged_out>>

\* check_notifications marking what it returns as read.
check_notifications_marking ==
    /\ call' = Call("check_notifications", <<>>)
    /\ IF ~Truthy(current_user)
       THEN /\ ret' = <<>>
            /\ UNCHANGED <<heap, marked>>
       ELSE /\ ret' = get_unread_notifications
            /\ heap' = [a \in DOMAIN heap |-> [heap[a] EXCEPT !.is_read = TRUE]]
            /\ marked' = marked \cup {get_unread_notifications[i] :
                                        i \in DOMAIN get_unread_notifications}
    /\ UNCHANGED <<_notifications, _next_id, current_user, returned_ids, ever_logged_in,
                   view_count, created_logged_out>>

\* HealthcareProviderSystem.check_notifications
check_notifications ==
    /\ call' = Call("check_notifications", <<>>)
    /\ IF ~Truthy(current_user)
       THEN ret' = <<>>
       ELSE ret' = get_unread_notifications
    /\ UNCHANGED <<store, current_user, history>>

\* view_notification with "notification.is_read = not notification.is_read".
view_notification_toggle(notification_id) ==
    /\ call' = Call("view_notification", <<notification_id>>)
    /\ IF ~Truthy(current_user)
       THEN /\ ret' = None
            /\ UNCHANGED <<heap, marked, view_count>>
       ELSE LET notification == get_notification_by_id(notification_id) IN
            IF Truthy(notification)
            THEN /\ heap' = [heap EXCEPT ![notification.addr].is_read = ~@]
                 /\ marked' = marked \cup {notification}
                 /\ view_count' = [view_count EXCEPT ![notification_id] =
                        IF @ < ViewCap THEN @ + 1 ELSE @]
                 /\ ret' = notification
            ELSE /\ ret' = None
                 /\ UNCHANGED <<heap, marked, view_count>>
    /\ UNCHANGED <<_notifications, _next_id, current_user, returned_ids, ever_logged_in,
                   created_logged_out>>

\* view_notification without its "if not self.current_user" guard.
view_notification_ungated(notification_id) ==
    /\ call' = Call("view_notification", <<notification_id>>)
    /\ LET notification == get_notification_by_id(notification_id) IN
       IF Truthy(notification)
       THEN /\ heap' = [heap EXCEPT ![notification.addr].is_read = TRUE]
            /\ marked' = marked \cup {notification}
            /\ view_count' = [view_count EXCEPT ![notification_id] =
                   IF @ < ViewCap THEN @ + 1 ELSE @]
            /\ ret' = notification
       ELSE /\ ret' = None
            /\ UNCHANGED <<heap, marked, view_count>>
    /\ UNCHANGED <<_notifications, _next_id, current_user, returned_ids, ever_logged_in,
                   created_logged_out>>

\* view_notification with "if notification and not notification.is_read".
view_notification_unread_only(notification_id) ==
    /\ call' = Call("view_notification", <<notification_id>>)
    /\ IF ~Truthy(current_user)
       THEN /\ ret' = None
            /\ UNCHANGED <<heap, marked, view_count>>
       ELSE LET notification == get_notification_by_id(notification_id) IN
            IF Truthy(notification) /\ ~heap[notification.addr].is_read
            THEN /\ heap' = [heap EXCEPT ![notification.addr].is_read = TRUE]
                 /\ marked' = marked \cup {notification}
                 /\ view_count' = [view_count EXCEPT ![notification_id] =
                        IF @ < ViewCap THEN @ + 1 ELSE @]
                 /\ ret' = notification
            ELSE /\ ret' = None
                 /\ view_count' = [view_count EXCEPT ![notification_id] =
                        IF Truthy(notification) /\ @ < ViewCap THEN @ + 1 ELSE @]
                 /\ UNCHANGED <<heap, marked>>
    /\ UNCHANGED <<_notifications, _next_id, current_user, returned_ids, ever_logged_in,
                   created_logged_out>>

\* view_notification without its "notification.is_read = True".
view_notification_no_mark(notification_id) ==
    /\ call' = Call("view_notification", <<notification_id>>)
    /\ IF ~Truthy(current_user)
       THEN /\ ret' = None
            /\ UNCHANGED <<heap, marked, view_count>>
       ELSE LET notification == get_notification_by_id(notification_id) IN
            IF Truthy(notification)
            THEN /\ heap' = heap
                 /\ marked' = marked \cup {notification}
                 /\ view_count' = [view_count EXCEPT ![notification_id] =
                        IF @ < ViewCap THEN @ + 1 ELSE @]
                 /\ ret' = notification
            ELSE /\ ret' = None
                 /\ UNCHANGED <<heap, marked, view_count>>
    /\ UNCHANGED <<_notifications, _next_id, current_user, returned_ids, ever_logged_in,
                   created_logged_out>>

\* view_notification marking every stored notification read, not the one found.
view_notification_mark_all(notification_id) ==
    /\ call' = Call("view_notification", <<notification_id>>)
    /\ IF ~Truthy(current_user)
       THEN /\ ret' = None
            /\ UNCHANGED <<heap, marked, view_count>>
       ELSE LET notification == get_notification_by_id(notification_id) IN
            IF Truthy(notification)
            THEN /\ heap' = [a \in DOMAIN heap |-> [heap[a] EXCEPT !.is_read = TRUE]]
                 /\ marked' = marked \cup {_notifications[i] : i \in DOMAIN _notifications}
                 /\ view_count' = [view_count EXCEPT ![notification_id] =
                        IF @ < ViewCap THEN @ + 1 ELSE @]
                 /\ ret' = notification
            ELSE /\ ret' = None
                 /\ UNCHANGED <<heap, marked, view_count>>
    /\ UNCHANGED <<_notifications, _next_id, current_user, returned_ids, ever_logged_in,
                   created_logged_out>>

\* HealthcareProviderSystem.view_notification
view_notification(notification_id) ==
    /\ call' = Call("view_notification", <<notification_id>>)
    /\ IF ~Truthy(current_user)
       THEN /\ ret' = None
            /\ UNCHANGED <<heap, marked, view_count>>
       ELSE LET notification == get_notification_by_id(notification_id) IN
            IF Truthy(notification)
            THEN /\ heap' = [heap EXCEPT ![notification.addr].is_read = TRUE]
                 /\ marked' = marked \cup {notification}
                 /\ view_count' = [view_count EXCEPT ![notification_id] =
                        IF @ < ViewCap THEN @ + 1 ELSE @]
                 /\ ret' = notification
            ELSE /\ ret' = None
                 /\ UNCHANGED <<heap, marked, view_count>>
    /\ UNCHANGED <<_notifications, _next_id, current_user, returned_ids, ever_logged_in,
                   created_logged_out>>

Next ==
    \/ \E text \in Texts, now \in Times : add_notification(text[1], text[2], now)
    \/ call_get_unread_notifications
    \/ \E notification_id \in Ids : call_get_notification_by_id(notification_id)
    \/ \E username \in Usernames, password \in Passwords : login(username, password)
    \/ check_notifications
    \/ \E notification_id \in Ids : view_notification(notification_id)

Spec == Init /\ [][Next]_vars

(***************************************************************************)
(* Vocabulary of the properties.                                           *)
(***************************************************************************)
Range(s) == {s[i] : i \in DOMAIN s}

\* The object a reference points to.
Obj(r) == heap[r.addr]

\* The position of a stored reference in _notifications.
Pos(r) == CHOOSE k \in DOMAIN _notifications : _notifications[k] = r

\* The stored references whose object is unread.
Unread == {r \in Range(_notifications) : ~Obj(r).is_read}

LoggedIn == Truthy(current_user)

\* C1: the identifiers add_notification returns are 1..N in call order, whatever
\* else is called in between, and the stored notifications' identifiers are
\* pairwise distinct and strictly increasing in sequence order.
C1_IdsSequential ==
    /\ \A i \in DOMAIN returned_ids : returned_ids[i] = i
    /\ call.op = "add_notification" =>
           Obj(ret).notification_id = returned_ids[Len(returned_ids)]
    /\ \A i, j \in DOMAIN _notifications :
           i < j => Obj(_notifications[i]).notification_id
                        < Obj(_notifications[j]).notification_id
    /\ \A i, j \in DOMAIN _notifications :
           i /= j => Obj(_notifications[i]).notification_id
                        /= Obj(_notifications[j]).notification_id

\* C1's case: a third notification is created after a login and a view.
C1_Witness ==
    /\ call.op = "add_notification"
    /\ Len(returned_ids) >= 3
    /\ marked /= {}

\* C2: a read flag that is true stays true over every step.
C2_ReadNeverReverts ==
    [][\A a \in DOMAIN heap : heap[a].is_read => heap'[a].is_read]_vars

\* C2's case: a notification is read, it is viewed again, and another is created.
C2_Witness ==
    /\ call.op = "add_notification"
    /\ \E i \in Ids : view_count[i] >= 2
    /\ \E a \in DOMAIN heap : heap[a].is_read

\* C3: get_unread_notifications returns exactly the stored unread notifications,
\* in creation order, none of them one that was marked read, and the empty list
\* when the store is empty or everything is read.
C3_ListUnread ==
    call.op = "get_unread_notifications" =>
        /\ Range(ret) = Unread
        /\ \A i, j \in DOMAIN ret : i < j => Pos(ret[i]) < Pos(ret[j])
        /\ Range(ret) \cap marked = {}
        /\ (_notifications = <<>> \/ Unread = {}) => ret = <<>>

\* C3's case: of three notifications the middle one was marked read.
C3_Witness ==
    /\ call.op = "get_unread_notifications"
    /\ Len(_notifications) = 3
    /\ marked = {_notifications[2]}
    /\ ret = <<_notifications[1], _notifications[3]>>
\* The stored references whose object carries the identifier id.
WithId(id) == {r \in Range(_notifications) : Obj(r).notification_id = id}

\* C4: login returns True, and records the username as the current user, exactly
\* when username and password are both non-empty; otherwise it returns False and
\* leaves the session (the current user, set or not) as it was.
C4_Login ==
    [][call'.op = "login" =>
        LET username == call'.args[1]
            password == call'.args[2]
        IN  /\ ret' \in BOOLEAN
            /\ ret' <=> (username /= "" /\ password /= "")
            /\ ret' => (current_user' = Str(username) /\ Truthy(current_user'))
            /\ ~ret' => (current_user' = current_user /\ ever_logged_in' = ever_logged_in)
            /\ (username = "" /\ password = "x") => ~ret'
            /\ (username = "x" /\ password = "") => ~ret'
            /\ (username = "x" /\ password = "y") => ret']_vars

\* C4's case: login("x", "") fails while dr.smith is logged in, who stays so.
C4_Witness ==
    /\ call = Call("login", <<"x", "">>)
    /\ ret = FALSE
    /\ current_user = Str("dr.smith")

\* C5: before any login has succeeded, check_notifications returns the empty
\* list and view_notification returns None, whatever the store holds.
C5_GatedBeforeLogin ==
    ~ever_logged_in =>
        /\ call.op = "check_notifications" => ret = <<>>
        /\ call.op = "view_notification" => ret = None

\* C5's case: before any login, the id of a stored unread notification is viewed.
C5_Witness ==
    /\ ~ever_logged_in
    /\ call.op = "view_notification"
    /\ \E r \in Unread : Obj(r).notification_id = call.args[1]

\* C6: a logged-in view_notification of a stored id returns that notification
\* with its read flag true; repeated at once with the same id, it returns the
\* same notification again.
C6_ViewMarksRead ==
    [][(call'.op = "view_notification" /\ LoggedIn /\ WithId(call'.args[1]) /= {}) =>
        /\ \A r \in WithId(call'.args[1]) :
               /\ ret' = r
               /\ heap'[r.addr].is_read
        /\ call = call' => ret' = ret]_vars

\* C6's case: the same stored id has been viewed twice while logged in.
C6_Witness ==
    /\ call.op = "view_notification"
    /\ view_count[call.args[1]] >= 2
    /\ ret \in WithId(call.args[1])
    /\ Obj(ret).is_read

\* C7: with N notifications created, get_notification_by_id returns the stored
\* notification carrying the id for each id in 1..N, and None for any other id.
C7_FindById ==
    call.op = "get_notification_by_id" =>
        LET id == call.args[1]
            N == Len(returned_ids)
        IN  IF id \in 1..N
            THEN ret \in Range(_notifications) /\ Obj(ret).notification_id = id
            ELSE ret = None

\* C7's case: the second of three notifications is found by its id.
C7_Witness ==
    /\ call = Call("get_notification_by_id", <<2>>)
    /\ Len(returned_ids) = 3
    /\ ret = _notifications[2]
\* C8: once a login has succeeded the current user stays set, through failed
\* logins too, and check_notifications and view_notification are let through.
C8_LoggedInForever ==
    ever_logged_in =>
        /\ current_user /= None
        /\ LoggedIn
        /\ call.op = "check_notifications" => Range(ret) = Unread
        /\ (call.op = "view_notification" /\ WithId(call.args[1]) /= {}) =>
               ret \in WithId(call.args[1])

\* C8's case: after a successful login, a login with empty credentials has failed.
C8_Witness ==
    /\ ever_logged_in
    /\ call = Call("login", <<"", "">>)
    /\ ret = FALSE
    /\ LoggedIn

\* C9: a logged-in check_notifications returns exactly the unread stored
\* notifications in creation order: none that view_notification has marked
\* read, and every stored one it has not.
C9_CheckReturnsUnread ==
    (call.op = "check_notifications" /\ LoggedIn) =>
        /\ Range(ret) = Unread
        /\ Len(ret) = Cardinality(Unread)
        /\ \A i, j \in DOMAIN ret :
               i < j => Obj(ret[i]).notification_id < Obj(ret[j]).notification_id
        /\ \A r \in marked : r \notin Range(ret)
        /\ \A r \in Range(_notifications) \ marked : r \in Range(ret)

\* C9's case: of two notifications the first was viewed once; the check returns
\* the second alone.
C9_Witness ==
    /\ call.op = "check_notifications"
    /\ LoggedIn
    /\ Len(_notifications) = 2
    /\ marked = {_notifications[1]}
    /\ view_count[1] = 1
    /\ ret = <<_notifications[2]>>

\* C10: a logged-in view_notification of an id no stored notification carries
\* returns None and changes neither the objects, the list, the counter nor the
\* current user.
C10_ViewUnknownId ==
    [][(call'.op = "view_notification" /\ LoggedIn /\ WithId(call'.args[1]) = {}) =>
        /\ ret' = None
        /\ UNCHANGED <<heap, _notifications, _next_id, current_user>>]_vars

\* C10's case: logged in, with unread notifications stored, the id after the
\* last one issued is viewed.
C10_Witness ==
    /\ call.op = "view_notification"
    /\ LoggedIn
    /\ call.args[1] = _next_id
    /\ Unread /= {}
    /\ ret = None
\* C11: add_notification returns a new unread notification carrying the given
\* title and content, appends it as the last element of the list and adds one to
\* the counter; the objects already stored and the current user are unchanged;
\* empty title and content are accepted.
C11_AddNotification ==
    [][call'.op = "add_notification" =>
        /\ ret'.type = "Notification"
        /\ ret' \notin Range(_notifications)
        /\ ret'.addr \notin DOMAIN heap
        /\ heap'[ret'.addr].is_read = FALSE
        /\ heap'[ret'.addr].title = call'.args[1]
        /\ heap'[ret'.addr].content = call'.args[2]
        /\ _notifications' = Append(_notifications, ret')
        /\ _next_id' = _next_id + 1
        /\ \A a \in DOMAIN heap : heap'[a] = heap[a]
        /\ current_user' = current_user]_vars

\* C11's case: logged in, with a read notification stored, a notification with
\* empty title and content is created.
C11_Witness ==
    /\ call = Call("add_notification", <<"", "">>)
    /\ LoggedIn
    /\ ret = _notifications[Len(_notifications)]
    /\ Obj(ret).title = "" /\ Obj(ret).content = "" /\ ~Obj(ret).is_read
    /\ \E r \in Range(_notifications) : Obj(r).is_read /\ Obj(r).title /= ""
\* C12: get_unread_notifications, get_notification_by_id and check_notifications
\* change neither the objects (no read flag), the list, the counter nor the
\* current user, whatever the state and the argument.
C12_QueriesPure ==
    [][call'.op \in {"get_unread_notifications", "get_notification_by_id",
                     "check_notifications"} =>
        UNCHANGED <<heap, _notifications, _next_id, current_user>>]_vars

\* C12's case: a logged-in check_notifications has returned two notifications,
\* which are still unread.
C12_Witness ==
    /\ call.op = "check_notifications"
    /\ LoggedIn
    /\ Len(ret) >= 2
    /\ \A i \in DOMAIN ret : ~Obj(ret[i]).is_read

\* C13: view_notification without a current user returns None and changes
\* nothing in the store; a read flag turns true only in a view_notification
\* step taken with a current user set, for the id viewed.
C13_ViewLoggedOutNoEffect ==
    [][/\ (call'.op = "view_notification" /\ ~LoggedIn) =>
              /\ ret' = None
              /\ UNCHANGED <<heap, _notifications, _next_id, current_user>>
       /\ \A a \in DOMAIN heap :
              (~heap[a].is_read /\ heap'[a].is_read) =>
                  /\ call'.op = "view_notification"
                  /\ LoggedIn
                  /\ heap[a].notification_id = call'.args[1]]_vars

\* C13's case: with nobody logged in, the second of the stored notifications is
\* viewed, and every stored notification is still unread.
C13_Witness ==
    /\ ~LoggedIn
    /\ call = Call("view_notification", <<2>>)
    /\ Len(_notifications) >= 2
    /\ Unread = Range(_notifications)
    /\ ret = None

\* C14: a logged-in view_notification(id) changes at most the read flag of the
\* one notification carrying id: every other flag, every identifier, title,
\* content and timestamp, the list, the counter and the current user are kept.
C14_ViewFrame ==
    [][(call'.op = "view_notification" /\ LoggedIn) =>
        /\ DOMAIN heap' = DOMAIN heap
        /\ \A a \in DOMAIN heap :
               /\ heap'[a].notification_id = heap[a].notification_id
               /\ heap'[a].title = heap[a].title
               /\ heap'[a].content = heap[a].content
               /\ heap'[a].timestamp = heap[a].timestamp
               /\ heap[a].notification_id /= call'.args[1] =>
                      heap'[a].is_read = heap[a].is_read
        /\ Cardinality({a \in DOMAIN heap : heap'[a] /= heap[a]}) <= 1
        /\ UNCHANGED <<_notifications, _next_id, current_user>>]_vars

\* C14's case: of three notifications one is viewed while logged in and is the
\* only one read.
C14_Witness ==
    /\ call.op = "view_notification"
    /\ LoggedIn
    /\ Len(_notifications) = 3
    /\ ret \in Range(_notifications)
    /\ Range(_notifications) \ Unread = {ret}
\* C15: the counter is always the number of stored notifications plus one, the
\* notification at position k carries identifier k, and no step removes or
\* moves a stored notification, so the list never gets shorter.
C15_CounterAndPositions ==
    /\ [](/\ _next_id = Len(_notifications) + 1
          /\ \A k \in DOMAIN _notifications :
                 Obj(_notifications[k]).notification_id = k)
    /\ [][/\ Len(_notifications') >= Len(_notifications)
          /\ \A k \in DOMAIN _notifications : _notifications'[k] = _notifications[k]]_vars

\* C15's case: three notifications are stored, the counter is 4, and the store
\* has since been queried by id.
C15_Witness ==
    /\ Len(_notifications) = 3
    /\ _next_id = 4
    /\ call.op = "get_notification_by_id"
    /\ marked /= {}

\* C16: add_notification succeeds with or without a current user and numbers
\* the notifications alike in both cases; what was created while logged out is
\* stored, and while unread is returned by a logged-in check_notifications.
C16_CreateNotGated ==
    /\ call.op = "add_notification" =>
           /\ ret \in Range(_notifications)
           /\ Obj(ret).notification_id = Len(returned_ids)
           /\ Pos(ret) = Len(returned_ids)
    /\ created_logged_out \subseteq Range(_notifications)
    /\ \A r \in Range(_notifications) : Obj(r).notification_id = Pos(r)
    /\ (call.op = "check_notifications" /\ LoggedIn) =>
           \A r \in created_logged_out : ~Obj(r).is_read => r \in Range(ret)

\* C16's case: a logged-in check_notifications returns a notification created
\* before the login and one created after it.
C16_Witness ==
    /\ call.op = "check_notifications"
    /\ LoggedIn
    /\ Range(ret) \cap created_logged_out /= {}
    /\ Range(ret) \ created_logged_out /= {}

\* C17: a login that succeeds while a user is logged in leaves the session
\* logged in with the new username as current user, and leaves the objects,
\* the list and the counter as they were.
C17_Relogin ==
    [][(call'.op = "login" /\ LoggedIn /\ ret' = TRUE) =>
        /\ current_user' = Str(call'.args[1])
        /\ LoggedIn'
        /\ UNCHANGED <<heap, _notifications, _next_id>>]_vars

\* C17's case: login("x", "y") succeeds after a logged-in view, so with a user
\* already logged in, and x is the current user.
C17_Witness ==
    /\ call = Call("login", <<"x", "y">>)
    /\ ret = TRUE
    /\ marked /= {}
    /\ current_user = Str("x")

====
